---- MODULE Spec2Model ----
(***************************************************************************)
(* x112v4l2: the ffmpeg command builder (x112v4l2/ffmpeg.py) and the Gtk   *)
(* widget finder (x112v4l2/gtk/utils.py).                                  *)
(*                                                                         *)
(* Every function of the two files is pure apart from starting a process,  *)
(* so each one is an operator that computes what the code computes, and    *)
(* one action per function applies it to inputs drawn from bounded sets.   *)
(* A call goes idle -> returned; Return takes the program back to idle.    *)
(*                                                                         *)
(* Python numbers are records [num, den] (den > 0) so that the true        *)
(* divisions of screenshot() and the truncation of int() are computed and  *)
(* not assumed; None is its own record.  Python floats are modelled by the *)
(* exact quotient.  In screenshot() (NearDims) the operands stay below 13, *)
(* where the IEEE double results of w / h, m / (w / h) and m * (w / h)     *)
(* truncate and compare exactly as the rational ones do (the first         *)
(* disagreement is int(27 * (13 / 3)) = 116 against 117).  The comparison  *)
(* of line 112 is between two correctly rounded quotients of integers,     *)
(* which are equal as doubles exactly when the ratios are equal as long as *)
(* the integers are below 2^26.                                            *)
(***************************************************************************)
EXTENDS Integers, Sequences, FiniteSets, TLC

VARIABLES pc, op, args, ret

vars == <<pc, op, args, ret>>

(***************************************************************************)
(* Bounds                                                                  *)
(***************************************************************************)
MaxDim == 3
MaxFps == 2
MaxLineLen == 5
MaxNodes == 4

\* The dimensions of the worked example of the specification.
ExampleDims == {720, 1080, 1280, 1920}

(***************************************************************************)
(* Python values                                                           *)
(***************************************************************************)
None == [none |-> TRUE]

Num(n) == [num |-> n, den |-> 1]

\* bool(v) of None or of a number
Truthy(v) == v # None /\ v.num # 0

\* int(v): truncation toward zero
PyInt(v) == IF v.num >= 0 THEN v.num \div v.den ELSE -((-v.num) \div v.den)

\* a / b (true division); the caller guards b # 0
TrueDiv(a, b) ==
    IF b.num > 0 THEN [num |-> a.num * b.den, den |-> a.den * b.num]
                 ELSE [num |-> -(a.num * b.den), den |-> -(a.den * b.num)]

\* a * b
Mul(a, b) == [num |-> a.num * b.num, den |-> a.den * b.den]

\* a > b
Gt(a, b) == a.num * b.den > b.num * a.den

\* math.ceil(v)
Ceil(v) == -((-v.num) \div v.den)

\* str(n) for an integer
Str(n) == ToString(n)

(***************************************************************************)
(* compile_command                                                         *)
(***************************************************************************)

\* lines 64-67: "if not output_width: output_width = source_width"
default_dim(output, source) == IF ~Truthy(output) THEN source ELSE output

\* line 86: getattr(source_screen, 'full_id', source_screen)
screen_id_of(source_screen) ==
    IF "full_id" \in DOMAIN source_screen THEN source_screen.full_id
                                           ELSE source_screen.str

\* input_args with the '-framerate' value always str(fps), the 120 of
\* line 83 forgotten
input_args_plain_rate(loglevel, fps, source_width, source_height, source_screen, source_x, source_y) ==
    << "ffmpeg",
       "-loglevel", loglevel,
       "-f", "x11grab",
       "-framerate", Str(fps),
       "-s", Str(source_width) \o "x" \o Str(source_height),
       "-i", screen_id_of(source_screen) \o "+" \o Str(source_x) \o "," \o Str(source_y) >>

\* lines 77-90
input_args(loglevel, fps, source_width, source_height, source_screen, source_x, source_y) ==
    << "ffmpeg",
       "-loglevel", loglevel,
       "-f", "x11grab",
       "-framerate", Str(IF fps # 0 THEN fps ELSE 120),
       "-s", Str(source_width) \o "x" \o Str(source_height),
       "-i", screen_id_of(source_screen) \o "+" \o Str(source_x) \o "," \o Str(source_y) >>

stretch_filter(w, h) == "scale=width=" \o Str(w) \o ":height=" \o Str(h)

scale_filter(w, h) ==
    "scale=width=" \o Str(w) \o ":height=" \o Str(h) \o ":force_original_aspect_ratio=decrease"

pad_filter(w, h) ==
    "pad=width=" \o Str(w) \o ":height=" \o Str(h) \o ":x=(ow-iw)/2:y=(oh-ih)/2"

\* aspect_differs comparing width / height with height / width
aspect_differs_inverted(source_width, source_height, output_width, output_height) ==
    source_width * output_width # output_height * source_height

\* lines 110-112: source_width / source_height != output_width / output_height
aspect_differs(source_width, source_height, output_width, output_height) ==
    source_width * output_height # output_width * source_height

\* lines 110-111 divide by source_height and by output_height
aspect_raises(source_height, output_height) == source_height = 0 \/ output_height = 0

\* filter_list whose stretch branch falls through to the padding of line 112
filter_list_stretch_pads(source_width, source_height, output_width, output_height, scale, maintain_aspect) ==
    IF output_width # source_width \/ output_height # source_height
    THEN (IF scale /\ ~maintain_aspect
          THEN << stretch_filter(output_width, output_height) >>
          ELSE IF scale /\ output_width # source_width /\ output_height # source_height
               THEN << scale_filter(output_width, output_height) >>
               ELSE << >>)
         \o
         (IF ~scale \/ aspect_differs(source_width, source_height, output_width, output_height)
          THEN << pad_filter(output_width, output_height) >>
          ELSE << >>)
    ELSE << >>

\* lines 93-119: the list filter_args before it is joined
filter_list(source_width, source_height, output_width, output_height, scale, maintain_aspect) ==
    IF output_width # source_width \/ output_height # source_height
    THEN IF scale /\ ~maintain_aspect
         THEN << stretch_filter(output_width, output_height) >>
         ELSE (IF scale /\ output_width # source_width /\ output_height # source_height
               THEN << scale_filter(output_width, output_height) >>
               ELSE << >>)
              \o
              (IF ~scale \/ aspect_differs(source_width, source_height, output_width, output_height)
               THEN << pad_filter(output_width, output_height) >>
               ELSE << >>)
    ELSE << >>

\* lines 94-112: does the call reach a division by zero
filter_error(source_width, source_height, output_width, output_height, scale, maintain_aspect) ==
    /\ output_width # source_width \/ output_height # source_height
    /\ ~(scale /\ ~maintain_aspect)
    /\ aspect_raises(source_height, output_height)

RECURSIVE join(_, _)
\* sep.join(strs)
join(sep, strs) ==
    IF strs = << >> THEN ""
    ELSE IF Len(strs) = 1 THEN strs[1]
    ELSE strs[1] \o sep \o join(sep, Tail(strs))

\* vf_args without the "if filter_args" of line 121
vf_args_always(filters) == << "-vf", join(", ", filters) >>

\* lines 121-122
vf_args(filters) == IF filters # << >> THEN << "-vf", join(", ", filters) >> ELSE << >>

\* output_args with the test of line 126 lost: the stream clause always
output_args_always_stream(fps, output_filename) ==
    << "-vcodec", "rawvideo", "-pix_fmt", "yuv420p", "-threads", "0", "-f", "v4l2",
       output_filename >>

\* lines 125-141
output_args(fps, output_filename) ==
    IF fps = 0
    THEN << "-vframes", "1", "-y", output_filename >>
    ELSE << "-vcodec", "rawvideo", "-pix_fmt", "yuv420p", "-threads", "0", "-f", "v4l2",
            output_filename >>

\* lines 31-143; a is the record of the arguments.  The result keeps the
\* locals of the call next to the returned token list cmd.
compile_command(a) ==
    LET output_width0  == default_dim(a.output_width, a.source_width)
        output_height0 == default_dim(a.output_height, a.source_height)
        source_x      == PyInt(a.source_x)
        source_y      == PyInt(a.source_y)
        source_width  == PyInt(a.source_width)
        source_height == PyInt(a.source_height)
        output_width  == PyInt(output_width0)
        output_height == PyInt(output_height0)
        fps           == PyInt(a.fps)
        inp == input_args(a.loglevel, fps, source_width, source_height,
                          a.source_screen, source_x, source_y)
        fl  == filter_list(source_width, source_height, output_width, output_height,
                           a.scale, a.maintain_aspect)
        vf  == vf_args(fl)
        out == output_args(fps, a.output_filename)
    IN  [ raised        |-> filter_error(source_width, source_height, output_width,
                                         output_height, a.scale, a.maintain_aspect),
          source_width  |-> source_width,
          source_height |-> source_height,
          output_width  |-> output_width,
          output_height |-> output_height,
          fps           |-> fps,
          scale         |-> a.scale,
          maintain_aspect |-> a.maintain_aspect,
          output_filename |-> a.output_filename,
          input_args    |-> inp,
          filters       |-> fl,
          filter_args   |-> vf,
          output_args   |-> out,
          cmd           |-> inp \o vf \o out ]

(***************************************************************************)
(* screenshot and stream                                                   *)
(***************************************************************************)

\* screenshot_size with line 172 dividing by the aspect instead of multiplying
screenshot_size_divides(geometry, max_width, max_height) ==
    LET source_aspect == TrueDiv(geometry.width, geometry.height)
        w1 == IF Truthy(max_width) /\ Gt(geometry.width, max_width)
              THEN max_width ELSE geometry.width
        h1 == IF Truthy(max_width) /\ Gt(geometry.width, max_width)
              THEN TrueDiv(max_width, source_aspect) ELSE geometry.height
        second == Truthy(max_height) /\ Gt(h1, max_height)
        h2 == IF second THEN max_height ELSE h1
        w2 == IF second THEN TrueDiv(max_height, source_aspect) ELSE w1
    IN  << w2, h2 >>

\* lines 164-172: the output size that screenshot passes on, <<width, height>>
screenshot_size(geometry, max_width, max_height) ==
    LET source_aspect == TrueDiv(geometry.width, geometry.height)
        w1 == IF Truthy(max_width) /\ Gt(geometry.width, max_width)
              THEN max_width ELSE geometry.width
        h1 == IF Truthy(max_width) /\ Gt(geometry.width, max_width)
              THEN TrueDiv(max_width, source_aspect) ELSE geometry.height
        second == Truthy(max_height) /\ Gt(h1, max_height)
        h2 == IF second THEN max_height ELSE h1
        w2 == IF second THEN Mul(max_height, source_aspect) ELSE w1
    IN  << w2, h2 >>

\* lines 174-185: the arguments screenshot gives compile_command
screenshot_args(screen_id, geometry, filename, max_width, max_height) ==
    LET size == screenshot_size(geometry, max_width, max_height)
    IN  [ source_screen |-> screen_id,
          source_x |-> geometry.x, source_y |-> geometry.y,
          source_width |-> geometry.width, source_height |-> geometry.height,
          output_filename |-> filename,
          output_width |-> size[1], output_height |-> size[2],
          fps |-> Num(0), scale |-> TRUE, maintain_aspect |-> FALSE,
          loglevel |-> "error" ]

\* lines 186-190, 221-225: subprocess.Popen(cmd, stdin=DEVNULL, stdout=DEVNULL)
Popen(cmd) == [ cmd |-> cmd, stdin |-> "DEVNULL", stdout |-> "DEVNULL" ]

\* lines 146-190
screenshot(screen_id, geometry, filename, max_width, max_height) ==
    LET a  == screenshot_args(screen_id, geometry, filename, max_width, max_height)
        cc == compile_command(a)
    IN  [ cc_args |-> a, cc |-> cc, proc |-> Popen(cc.cmd) ]

\* even_dim rounding down: int(v / 2) * 2
even_dim_floor(v) == Num(PyInt(TrueDiv(v, Num(2))) * 2)

\* lines 216-217: math.ceil(v / 2) * 2
even_dim(v) == Num(Ceil(TrueDiv(v, Num(2))) * 2)

\* lines 208-220: the arguments stream gives compile_command
stream_args(screen_id, geometry, fps, filename) ==
    [ source_screen |-> screen_id,
      source_x |-> geometry.x, source_y |-> geometry.y,
      source_width |-> geometry.width, source_height |-> geometry.height,
      output_filename |-> filename,
      output_width |-> even_dim(geometry.width),
      output_height |-> even_dim(geometry.height),
      fps |-> fps, scale |-> TRUE, maintain_aspect |-> TRUE,
      loglevel |-> "error" ]

\* lines 192-225
stream(screen_id, geometry, fps, filename) ==
    LET a  == stream_args(screen_id, geometry, fps, filename)
        cc == compile_command(a)
    IN  [ cc_args |-> a, cc |-> cc, proc |-> Popen(cc.cmd) ]

(***************************************************************************)
(* get_version                                                             *)
(***************************************************************************)

\* The first line of the tool's output is a sequence of atoms: a single
\* space, or a run of characters without a space.  Adjacent runs belong to
\* the same word.
RECURSIVE split_from(_, _, _)
\* text.split(' '), scanning from atom i with the word cur under construction
split_from(text, i, cur) ==
    IF i > Len(text) THEN << cur >>
    ELSE IF text[i] = " " THEN << cur >> \o split_from(text, i + 1, "")
    ELSE split_from(text, i + 1, cur \o text[i])

split(text) == split_from(text, 1, "")

\* lines 24-28 on the list words (Python index k is index k + 1 here); an
\* index past the end of the list raises IndexError
parse_version(words) ==
    IF Len(words) < 2 THEN [ kind |-> "raise", val |-> "IndexError" ]
    ELSE IF words[2] = "version"
         THEN IF Len(words) < 3 THEN [ kind |-> "raise", val |-> "IndexError" ]
              ELSE [ kind |-> "str", val |-> words[3] ]
         ELSE [ kind |-> "str", val |-> "<Unknown>" ]

\* lines 8-28: status is proc.wait(), line is proc.stdout.readline()
get_version(status, line) ==
    IF status # 0 THEN [ kind |-> "None", val |-> "" ]
    ELSE parse_version(split(line))

(***************************************************************************)
(* find_child_by_id                                                        *)
(***************************************************************************)

\* A widget hierarchy: nodes 1..n, node 1 the root; kids[w] is what
\* w.get_children() returns, name[w] what w.get_name() returns, and
\* has_children[w] is hasattr(w, 'get_children').

RECURSIVE scan_level_depth_first(_, _, _, _, _)
\* scan_level descending into the children of a widget before it moves on
\* to the widget's next sibling
scan_level_depth_first(t, target, children, i, acc) ==
    IF i > Len(children) THEN [ found |-> 0, next_level |-> << >>,
                                visited |-> acc.visited ]
    ELSE LET child == children[i]
             seen  == Append(acc.visited, child)
         IN  IF t.name[child] = target
             THEN [ found |-> child, next_level |-> << >>, visited |-> seen ]
             ELSE LET below == IF t.has_children[child]
                               THEN scan_level_depth_first(t, target, t.kids[child], 1,
                                        [ next_level |-> << >>, visited |-> seen ])
                               ELSE [ found |-> 0, next_level |-> << >>, visited |-> seen ]
                  IN  IF below.found # 0 THEN below
                      ELSE scan_level_depth_first(t, target, children, i + 1,
                               [ next_level |-> << >>, visited |-> below.visited ])

RECURSIVE scan_level(_, _, _, _, _)
\* lines 16-21: the for loop over children from position i; next_level and
\* visited are the lists built so far.  visited is the instrumentation: the
\* nodes whose name was read, in order.
scan_level(t, target, children, i, acc) ==
    IF i > Len(children) THEN [ found |-> 0, next_level |-> acc.next_level,
                                visited |-> acc.visited ]
    ELSE LET child == children[i]
             seen  == Append(acc.visited, child)
         IN  IF t.name[child] = target
             THEN [ found |-> child, next_level |-> acc.next_level, visited |-> seen ]
             ELSE scan_level(t, target, children, i + 1,
                    [ next_level |-> IF t.has_children[child]
                                     THEN acc.next_level \o t.kids[child]
                                     ELSE acc.next_level,
                      visited |-> seen ])

RECURSIVE search_levels(_, _, _, _)
\* lines 13-21: the while loop; found = 0 is None
search_levels(t, target, next_level, visited) ==
    IF next_level = << >> THEN [ found |-> 0, visited |-> visited ]
    ELSE LET r == scan_level(t, target, next_level, 1,
                             [ next_level |-> << >>, visited |-> visited ])
         IN  IF r.found # 0 THEN [ found |-> r.found, visited |-> r.visited ]
             ELSE search_levels(t, target, r.next_level, r.visited)

\* lines 5-22
find_child_by_id(t, target) == search_levels(t, target, << 1 >>, << >>)

(***************************************************************************)
(* The inputs                                                              *)
(***************************************************************************)
Dims == (1..MaxDim) \cup ExampleDims

Screens == { [str |-> ":0.0"], [full_id |-> ":1.0"] }

\* geometry: a dict with x, y, width, height
Geometries(D) ==
    { [x |-> Num(p[1]), y |-> Num(p[2]), width |-> Num(w), height |-> Num(h)] :
          p \in { <<0, 0>>, <<5, 7>> }, w \in D, h \in D }

OptDims(D) == { None, Num(0) } \cup { Num(d) : d \in D }

TypeOK ==
    /\ pc \in { "idle", "returned" }
    /\ op \in { "none", "compile_command", "screenshot", "stream", "get_version",
                "find_child_by_id" }

Init ==
    /\ pc = "idle"
    /\ op = "none"
    /\ args = << >>
    /\ ret = << >>

\* a direct call of compile_command
CompileCommand ==
    /\ pc = "idle"
    /\ \E sw \in Dims, sh \in Dims, ow \in OptDims(Dims), oh \in OptDims(Dims),
          fps \in 0..MaxFps, scale \in BOOLEAN, maintain_aspect \in BOOLEAN,
          scr \in Screens :
         LET a == [ source_screen |-> scr,
                    source_x |-> Num(IF "str" \in DOMAIN scr THEN 0 ELSE 5),
                    source_y |-> Num(IF "str" \in DOMAIN scr THEN 0 ELSE 7),
                    source_width |-> Num(sw), source_height |-> Num(sh),
                    output_filename |-> IF fps = 0 THEN "shot.png" ELSE "/dev/video0",
                    output_width |-> ow, output_height |-> oh,
                    fps |-> Num(fps), scale |-> scale, maintain_aspect |-> maintain_aspect,
                    loglevel |-> IF "str" \in DOMAIN scr THEN "error" ELSE "info" ]
         IN  /\ args' = a
             /\ ret' = compile_command(a)
    /\ op' = "compile_command"
    /\ pc' = "returned"

\* geometries whose quotients are exact in double precision
NearDims == 1..(MaxDim + 2)

\* a call of screenshot
Screenshot ==
    /\ pc = "idle"
    /\ \E g \in Geometries(NearDims), mw \in OptDims(NearDims), mh \in OptDims(NearDims) :
         /\ args' = [ screen_id |-> [str |-> ":0.0"], geometry |-> g, filename |-> "shot.png",
                      max_width |-> mw, max_height |-> mh ]
         /\ ret' = screenshot([str |-> ":0.0"], g, "shot.png", mw, mh)
    /\ op' = "screenshot"
    /\ pc' = "returned"

\* a call of stream
Stream ==
    /\ pc = "idle"
    /\ \E g \in Geometries(Dims), fps \in 0..MaxFps :
         /\ args' = [ screen_id |-> [str |-> ":0.0"], geometry |-> g, fps |-> Num(fps),
                      filename |-> "/dev/video0" ]
         /\ ret' = stream([str |-> ":0.0"], g, Num(fps), "/dev/video0")
    /\ op' = "stream"
    /\ pc' = "returned"

Atoms == { " ", "ffmpeg", "version", "4.4.2-test" }

\* what readline() can return: atoms, then a newline unless the output ended
Bodies == UNION { [1..n -> Atoms] : n \in 0..MaxLineLen }

Lines == Bodies \cup { Append(b, "\n") : b \in Bodies }

\* a call of get_version
GetVersion ==
    /\ pc = "idle"
    /\ \E status \in { 0, 1 }, line \in Lines :
         /\ args' = [ status |-> status, line |-> line ]
         /\ ret' = get_version(status, line)
    /\ op' = "get_version"
    /\ pc' = "returned"

Names == { "box", "target" }

\* the children of w under the parent map par, in child-list order
RECURSIVE kids_of(_, _, _, _)
kids_of(par, w, k, n) ==
    IF k > n THEN << >>
    ELSE (IF par[k] = w THEN << k >> ELSE << >>) \o kids_of(par, w, k + 1, n)

\* the finite acyclic hierarchies of n widgets
Trees(n) ==
    { [ n |-> n,
        parent |-> par,
        kids |-> [ w \in 1..n |-> kids_of(par, w, 2, n) ],
        name |-> nm,
        has_children |-> hc ] :
      par \in { f \in [2..n -> 1..n] : \A k \in 2..n : f[k] < k },
      nm \in [1..n -> Names],
      hc \in [1..n -> BOOLEAN] }

\* a call of find_child_by_id
FindChild ==
    /\ pc = "idle"
    /\ \E n \in 1..MaxNodes : \E t \in Trees(n) :
         /\ args' = [ root |-> t, name |-> "target" ]
         /\ ret' = find_child_by_id(t, "target")
    /\ op' = "find_child_by_id"
    /\ pc' = "returned"

Return ==
    /\ pc = "returned"
    /\ pc' = "idle"
    /\ op' = "none"
    /\ args' = << >>
    /\ ret' = << >>

Next == CompileCommand \/ Screenshot \/ Stream \/ GetVersion \/ FindChild \/ Return

Spec == Init /\ [][Next]_vars

(***************************************************************************)
(* Vocabulary of the properties                                            *)
(***************************************************************************)
Compiled == pc = "returned" /\ op \in { "compile_command", "screenshot", "stream" }

\* the arguments compile_command was called with, and its locals and result
CCArgs == IF op = "compile_command" THEN args ELSE ret.cc_args

CC == IF op = "compile_command" THEN ret ELSE ret.cc

Member(x, seq) == \E i \in 1..Len(seq) : seq[i] = x

Count(x, seq) == Cardinality({ i \in 1..Len(seq) : seq[i] = x })

Suffix(seq, n) == SubSeq(seq, Len(seq) - n + 1, Len(seq))

Unset(v) == v = None \/ v.num = 0

SameValue(a, b) == a.num * b.den = b.num * a.den

\* the requested output size once unset values took the source values
RequestedWidth == IF Unset(CCArgs.output_width) THEN CCArgs.source_width
                                                ELSE CCArgs.output_width

RequestedHeight == IF Unset(CCArgs.output_height) THEN CCArgs.source_height
                                                  ELSE CCArgs.output_height

SameSize == /\ SameValue(RequestedWidth, CCArgs.source_width)
            /\ SameValue(RequestedHeight, CCArgs.source_height)

SingleImageClause == << "-vframes", "1", "-y", CCArgs.output_filename >>

StreamClause == << "-vcodec", "rawvideo", "-pix_fmt", "yuv420p", "-threads", "0",
                   "-f", "v4l2", CCArgs.output_filename >>

IsSingleImage ==
    /\ CC.output_args = SingleImageClause
    /\ Suffix(CC.cmd, 4) = SingleImageClause
    /\ \A tok \in { "-vcodec", "rawvideo", "-pix_fmt", "yuv420p", "-threads", "v4l2" } :
          ~Member(tok, CC.cmd)
    /\ ~Member("0", CC.output_args) /\ ~Member("-f", CC.output_args)

IsStream ==
    /\ CC.output_args = StreamClause
    /\ Suffix(CC.cmd, 9) = StreamClause
    /\ ~Member("-vframes", CC.cmd) /\ ~Member("-y", CC.cmd)

\* C1: frame rate 0 gives the single-image output clause and none of the
\* stream tokens, a frame rate above 0 gives the stream clause without
\* -vframes / -y, whatever the sizes and flags; exactly one clause is emitted.
C1_OutputClause ==
    Compiled =>
        /\ CCArgs.fps.num = 0 => IsSingleImage
        /\ CCArgs.fps.num > 0 => IsStream
        /\ IsSingleImage # IsStream

C1_Witness ==
    /\ pc = "returned" /\ op = "compile_command"
    /\ args.fps = Num(0) /\ ~args.scale /\ args.maintain_aspect
    /\ Member("-vf", ret.cmd) /\ Member("-vframes", ret.cmd)

\* C2: when the output size, after defaulting, equals the source size the
\* token list has no -vf token, for every scale, maintain_aspect and frame
\* rate; in every call -vf occurs at most once and is followed by a
\* non-empty filter string.
C2_NoFilterWhenSameSize ==
    Compiled =>
        /\ SameSize => ~Member("-vf", CC.cmd)
        /\ Count("-vf", CC.cmd) <= 1
        /\ \A i \in 1..Len(CC.cmd) :
              CC.cmd[i] = "-vf" => i < Len(CC.cmd) /\ CC.cmd[i + 1] # ""

C2_Witness ==
    /\ pc = "returned" /\ op = "compile_command"
    /\ args.output_width = None /\ args.output_height = args.source_height
    /\ ~args.scale /\ args.fps = Num(1)
    /\ ~Member("-vf", ret.cmd)

\* C3: scale on, maintain_aspect off and an output size that differs from
\* the source in width or height: the chain is exactly the one stretch
\* filter scale=width=W:height=H with the output width and height.
C3_StretchOnly ==
    (Compiled /\ CCArgs.scale /\ ~CCArgs.maintain_aspect /\ ~SameSize) =>
        LET f == "scale=width=" \o ToString(CC.output_width)
                    \o ":height=" \o ToString(CC.output_height)
        IN  /\ CC.filters = << f >>
            /\ CC.filter_args = << "-vf", f >>
            /\ CC.output_width = PyInt(RequestedWidth)
            /\ CC.output_height = PyInt(RequestedHeight)

C3_Witness ==
    /\ pc = "returned" /\ op = "compile_command"
    /\ args.scale /\ ~args.maintain_aspect
    /\ args.source_width = Num(3) /\ args.source_height = Num(2)
    /\ args.output_width = Num(1) /\ args.output_height = Num(3)
    /\ ret.filters = << "scale=width=1:height=3" >>

\* C4: outside stretch mode, with an output size that differs from the
\* source, the chain is: the aspect-preserving scale filter iff scale is on
\* and both width and height differ; then the centering pad filter iff scale
\* is off or the source ratio differs from the output ratio.  1920x1080 to
\* 1280x720 with scale and maintain_aspect gives one scale filter, no pad.
C4_AspectChain ==
    (Compiled /\ ~(CCArgs.scale /\ ~CCArgs.maintain_aspect) /\ ~SameSize) =>
        LET sw == CC.source_width
            sh == CC.source_height
            ow == CC.output_width
            oh == CC.output_height
            size == "width=" \o ToString(ow) \o ":height=" \o ToString(oh)
            scaling == IF CCArgs.scale /\ ow # sw /\ oh # sh
                       THEN << "scale=" \o size \o ":force_original_aspect_ratio=decrease" >>
                       ELSE << >>
            padding == IF ~CCArgs.scale \/ sw * oh # ow * sh
                       THEN << "pad=" \o size \o ":x=(ow-iw)/2:y=(oh-ih)/2" >>
                       ELSE << >>
        IN  /\ CC.filters = scaling \o padding
            /\ (sw = 1920 /\ sh = 1080 /\ ow = 1280 /\ oh = 720
                  /\ CCArgs.scale /\ CCArgs.maintain_aspect)
               => CC.filters =
                    << "scale=width=1280:height=720:force_original_aspect_ratio=decrease" >>

C4_Witness ==
    /\ pc = "returned" /\ op = "compile_command"
    /\ args.scale /\ args.maintain_aspect
    /\ args.source_width = Num(1920) /\ args.source_height = Num(1080)
    /\ args.output_width = Num(1280) /\ args.output_height = Num(720)
    /\ Len(ret.filters) = 1
(***************************************************************************)
(* The hierarchy seen from outside the search                              *)
(***************************************************************************)
RECURSIVE Depth(_, _)
Depth(t, w) == IF w = 1 THEN 0 ELSE 1 + Depth(t, t.parent[w])

RECURSIVE Reachable(_, _)
\* w is reached from the root through widgets that list their children
Reachable(t, w) ==
    w = 1 \/ (t.has_children[t.parent[w]] /\ Reachable(t, t.parent[w]))

RECURSIVE Flatten(_)
Flatten(seqs) == IF seqs = << >> THEN << >> ELSE Head(seqs) \o Flatten(Tail(seqs))

\* the widgets one level below the widgets of level, in order
LevelBelow(t, level) ==
    Flatten([ i \in 1..Len(level) |->
                IF t.has_children[level[i]] THEN t.kids[level[i]] ELSE << >> ])

RECURSIVE BreadthFirst(_, _)
\* every reachable widget, level by level, from the given level on
BreadthFirst(t, level) ==
    IF level = << >> THEN << >> ELSE level \o BreadthFirst(t, LevelBelow(t, level))

\* the positions of the widgets called target in the breadth-first order
Hits(t, target) ==
    LET order == BreadthFirst(t, << 1 >>)
    IN  { i \in 1..Len(order) : t.name[order[i]] = target }

Min(S) == CHOOSE m \in S : \A k \in S : m <= k

\* C5: find_child_by_id returns the first widget in breadth-first order
\* whose name is the target, so none with that name is at a smaller depth;
\* it returns None exactly when no reachable widget has the name; widgets
\* without get_children are leaves; the widgets are examined level by level.
C5_BreadthFirst ==
    (pc = "returned" /\ op = "find_child_by_id") =>
        LET t == args.root
            order == BreadthFirst(t, << 1 >>)
            hits == Hits(t, args.name)
        IN  /\ (ret.found = 0) <=> (hits = { })
            /\ (ret.found = 0) <=>
                  ~(\E w \in 1..t.n : Reachable(t, w) /\ t.name[w] = args.name)
            /\ ret.found = 0 => ret.visited = order
            /\ ret.found # 0 =>
                  /\ ret.found = order[Min(hits)]
                  /\ ret.visited = SubSeq(order, 1, Min(hits))
                  /\ \A w \in 1..t.n :
                        (Reachable(t, w) /\ t.name[w] = args.name)
                            => Depth(t, w) >= Depth(t, ret.found)
            /\ \A i, j \in 1..Len(ret.visited) :
                  i < j => Depth(t, ret.visited[i]) <= Depth(t, ret.visited[j])
            /\ \A i \in 1..Len(ret.visited) :
                  \A w \in 1..t.n :
                      (w # 1 /\ ~t.has_children[t.parent[w]]) => ret.visited[i] # w

\* root with children 2 and 4, 3 below 2; 3 and 4 both carry the name
C5_Witness ==
    /\ pc = "returned" /\ op = "find_child_by_id"
    /\ args.root.n = 4
    /\ args.root.kids = << << 2, 4 >>, << 3 >>, << >>, << >> >>
    /\ args.root.name = << "box", "box", "target", "target" >>
    /\ args.root.has_children = << TRUE, TRUE, FALSE, TRUE >>
    /\ ret.found = 4
    /\ ret.visited = << 1, 2, 4 >>

\* C6: get_version never fails: None on a non-zero exit status; on exit
\* status 0 the third word when the second word is "version", and the
\* sentinel <Unknown> for every other first line, an empty one or one with
\* fewer than three words included.
C6_NeverFails ==
    (pc = "returned" /\ op = "get_version") =>
        LET words == split(args.line)
        IN  /\ ret.kind # "raise"
            /\ args.status # 0 => ret.kind = "None"
            /\ (args.status = 0 /\ Len(words) >= 3 /\ words[2] = "version")
                  => ret = [ kind |-> "str", val |-> words[3] ]
            /\ (args.status = 0 /\ ~(Len(words) >= 3 /\ words[2] = "version"))
                  => ret = [ kind |-> "str", val |-> "<Unknown>" ]

IsEven(n) == n % 2 = 0

\* the output size of stream: the source size rounded up to even
StreamRounding ==
    /\ IsEven(CC.output_width) /\ IsEven(CC.output_height)
    /\ CC.output_width >= args.geometry.width.num
    /\ CC.output_width <= args.geometry.width.num + 1
    /\ CC.output_height >= args.geometry.height.num
    /\ CC.output_height <= args.geometry.height.num + 1
    /\ CCArgs.output_width = Num(CC.output_width)
    /\ CCArgs.output_height = Num(CC.output_height)
    /\ CCArgs.maintain_aspect = TRUE

\* C7 as stated: for every geometry and every target frame rate, stream
\* compiles a persistent-stream command with the size rounded up to even
\* and maintain_aspect on.
C7_StreamEveryRate ==
    (pc = "returned" /\ op = "stream") => (StreamRounding /\ IsStream)

\* C7 amended: the size is rounded up to even and maintain_aspect is on for
\* every frame rate; the command is a persistent-stream command for every
\* frame rate other than 0, and the single-image command for frame rate 0.
C7_StreamEvenSize ==
    (pc = "returned" /\ op = "stream") =>
        /\ StreamRounding
        /\ args.fps.num # 0 => IsStream
        /\ args.fps.num = 0 => IsSingleImage

C7_Witness ==
    /\ pc = "returned" /\ op = "stream"
    /\ args.fps = Num(2)
    /\ args.geometry.width = Num(3) /\ args.geometry.height = Num(1080)
    /\ ret.cc.output_width = 4 /\ ret.cc.output_height = 1080
    /\ Member("-vcodec", ret.proc.cmd)

\* a bound the caller supplied: None and 0 both mean "no bound" to the code
Supplied(m) == m # None /\ m.num # 0

\* C8: screenshot never compiles an output size above a supplied bound
\* (both bounds hold at once when both are given), keeps the source size
\* when the geometry exceeds neither bound, and compiles a single-image
\* command with scale on and maintain_aspect off.
C8_ScreenshotWithinBounds ==
    (pc = "returned" /\ op = "screenshot") =>
        LET g == args.geometry
            ow == ret.cc.output_width
            oh == ret.cc.output_height
            f == "scale=width=" \o ToString(ow) \o ":height=" \o ToString(oh)
        IN  /\ Supplied(args.max_width) => ow <= args.max_width.num
            /\ Supplied(args.max_height) => oh <= args.max_height.num
            /\ ( /\ Supplied(args.max_width) => g.width.num <= args.max_width.num
                 /\ Supplied(args.max_height) => g.height.num <= args.max_height.num )
               => (ow = g.width.num /\ oh = g.height.num)
            /\ ret.cc_args.scale = TRUE /\ ret.cc_args.maintain_aspect = FALSE
            /\ ret.cc_args.fps = Num(0)
            /\ IsSingleImage
            /\ ret.proc.cmd = ret.cc.cmd
            /\ IF ow = g.width.num /\ oh = g.height.num
               THEN ~Member("-vf", ret.proc.cmd)
               ELSE ret.cc.filter_args = << "-vf", f >>

\* 5x4 under a bound of 3x2: the width bound gives 3 x 2.4, the height bound
\* then gives 2.5 x 2
C8_Witness ==
    /\ pc = "returned" /\ op = "screenshot"
    /\ args.geometry.width = Num(5) /\ args.geometry.height = Num(4)
    /\ args.max_width = Num(3) /\ args.max_height = Num(2)
    /\ ret.cc.output_width = 2 /\ ret.cc.output_height = 2

Positive(v) == v # None /\ v.num > 0

\* C9: for a geometry of positive width and height, through compile_command
\* with unset or positive output sizes, through screenshot with positive
\* bounds, or through stream, the output width and height after defaulting
\* and int() are positive, and unset output sizes take the source size.
C9_PositiveOutput ==
    ( /\ Compiled
      /\ op = "compile_command" =>
            /\ args.output_width = None \/ Positive(args.output_width)
            /\ args.output_height = None \/ Positive(args.output_height)
      /\ op = "screenshot" =>
            /\ args.max_width = None \/ Positive(args.max_width)
            /\ args.max_height = None \/ Positive(args.max_height) )
    =>  /\ CC.output_width > 0
        /\ CC.output_height > 0
        /\ CCArgs.output_width = None => CC.output_width = CC.source_width
        /\ CCArgs.output_height = None => CC.output_height = CC.source_height

\* C10: the result is the input tokens, the filter tokens, the output
\* tokens, in that order; it starts with ffmpeg -loglevel L -f x11grab
\* -framerate R -s WxH -i SCREEN+X,Y, R being the frame rate or 120 for
\* frame rate 0; -vf comes after -i and before every output token; the
\* output path is the last token.
C10_TokenOrder ==
    Compiled =>
        LET a == CCArgs
            scr == IF "full_id" \in DOMAIN a.source_screen
                   THEN a.source_screen.full_id ELSE a.source_screen.str
            head == << "ffmpeg", "-loglevel", a.loglevel, "-f", "x11grab",
                       "-framerate",
                       IF a.fps.num = 0 THEN "120" ELSE ToString(a.fps.num),
                       "-s",
                       ToString(a.source_width.num) \o "x" \o ToString(a.source_height.num),
                       "-i",
                       scr \o "+" \o ToString(a.source_x.num) \o "," \o ToString(a.source_y.num) >>
            cmd == CC.cmd
        IN  /\ SubSeq(cmd, 1, 11) = head
            /\ cmd = CC.input_args \o CC.filter_args \o CC.output_args
            /\ cmd[Len(cmd)] = a.output_filename
            /\ \A i \in 1..Len(cmd) : cmd[i] = "-vf" =>
                  /\ i = 12
                  /\ SubSeq(cmd, 14, Len(cmd)) = CC.output_args
            /\ ~Member("-vf", cmd) => SubSeq(cmd, 12, Len(cmd)) = CC.output_args
            /\ CC.output_args \in { SingleImageClause, StreamClause }

C10_Witness ==
    /\ pc = "returned" /\ op = "compile_command"
    /\ args.fps = Num(0)
    /\ "full_id" \in DOMAIN args.source_screen
    /\ ret.cmd[7] = "120" /\ ret.cmd[11] = ":1.0+5,7"
    /\ ret.cmd[12] = "-vf" /\ Len(ret.filters) = 2
====
